---------------------------- MODULE Spec2Model ----------------------------
(***************************************************************************)
(* A model of kiji_music.py, the driver that runs the KijiMusic tutorial   *)
(* against a KijiBento distribution: Main parses the flags, builds a       *)
(* Tutorial, and runs Setup, Part1..Part4 and Cleanup in sequence.         *)
(*                                                                         *)
(* Texts that the program inspects character by character (the truth flag, *)
(* the log level) are sequences of one-character strings.  Output lines    *)
(* matched by regular expressions are sequences of tokens, a token being a *)
(* character or a literal chunk of the expected text.                      *)
(***************************************************************************)
EXTENDS Integers, Sequences, FiniteSets, TLC

VARIABLES
  pc,        \* position of the single thread of control in Main
  args,      \* the command line as parse_known_args returns it
  disable_cleanup_after_test, \* FLAGS.disable_cleanup_after_test: "text" until parsed
  log_level, \* the local log_level of Main: "None" or an integer
  fs,        \* which paths of the working directory exist
  bento,     \* the Bento cluster: "none", "started", "stopped"
  fx,        \* the calls made so far on the external collaborators, in order
  cmds,      \* the commands issued so far through Tutorial.Command, in order
  cmd,       \* the result of the last command (the local of the current part)
  hdfs,      \* content of the HDFS files the gather jobs write
  phases,    \* the Tutorial methods entered so far, in order
  completed, \* the Tutorial methods that returned normally, in order
  printed,   \* whether Main printed a usage message
  result,    \* the value Main returned: [kind, value], kind "unset" until it returns
  exc,       \* the exception that left Main, "none" if none
  text,      \* the argument of Truth (the pure-function specification)
  truth      \* the outcome of Truth(text): "unset", "True", "False", "Error"

vars == << pc, args, disable_cleanup_after_test, log_level, fs, bento, fx, cmds,
           cmd, hdfs, phases, completed, printed, result, exc, text, truth >>

-----------------------------------------------------------------------------
(* Bounds of the model. *)

\* Longest output of 'kiji scan users' considered (the check needs 10 lines).
MaxScanLines == 11
\* Longest HDFS output file considered, in lines ('head -3' needs 3).
MaxFileLines == 4
\* Exit codes of the tools range over 0..MaxExit.
MaxExit == 1
\* Number of characters appended to a truth word to build non-words.
MaxPad == 1

\* os.EX_USAGE
EX_USAGE == 64

ExitCodes == 0..MaxExit

-----------------------------------------------------------------------------
(* Texts and str.lower(). *)

UpperChars == << "A","B","C","D","E","F","G","H","I","J","K","L","M",
                 "N","O","P","Q","R","S","T","U","V","W","X","Y","Z" >>
LowerChars == << "a","b","c","d","e","f","g","h","i","j","k","l","m",
                 "n","o","p","q","r","s","t","u","v","w","x","y","z" >>
DigitChars == << "0","1","2","3","4","5","6","7","8","9" >>

Range(s) == { s[i] : i \in 1..Len(s) }

LowerChar(c) ==
  IF \E i \in 1..Len(UpperChars) : UpperChars[i] = c
  THEN LowerChars[CHOOSE i \in 1..Len(UpperChars) : UpperChars[i] = c]
  ELSE c

UpperChar(c) ==
  IF \E i \in 1..Len(LowerChars) : LowerChars[i] = c
  THEN UpperChars[CHOOSE i \in 1..Len(LowerChars) : LowerChars[i] = c]
  ELSE c

\* str.lower()
Lower(s) == [ i \in 1..Len(s) |-> LowerChar(s[i]) ]

yes    == << "y","e","s" >>
true   == << "t","r","u","e" >>
no     == << "n","o" >>
false  == << "f","a","l","s","e" >>

\* Truth(text), lines 123-129: the value returned, or "Error" when it raises.
Truth_case_sensitive(t) ==
  IF t \in {yes, true} THEN "True"
  ELSE IF t \in {no, false} THEN "False"
  ELSE "Error"

Truth(t) ==
  LET lowered == Lower(t) IN
  IF lowered \in {yes, true} THEN "True"
  ELSE IF lowered \in {no, false} THEN "False"
  ELSE "Error"

\* The texts Truth is applied to: every capitalisation of a word, the word
\* being a truth word, a truth word padded with up to MaxPad characters, or
\* a text that is no truth word.
RECURSIVE Variants(_)
Variants(w) ==
  IF w = << >> THEN { << >> }
  ELSE { << c >> \o v : c \in {Head(w), UpperChar(Head(w))}, v \in Variants(Tail(w)) }

PadChars == { "s", " ", "1" }

RECURSIVE Padded(_, _)
Padded(w, n) ==
  IF n = 0 THEN { w }
  ELSE { w } \cup UNION { Padded(Append(w, c), n - 1) : c \in PadChars }

TruthWords == { yes, true, no, false }
OtherWords == { << >>, << "y" >>, << "t","r","u" >>, << "o","n" >>,
                << "m","a","y","b","e" >> }

TruthTexts ==
  UNION { Variants(p) : p \in UNION { Padded(w, MaxPad) : w \in TruthWords \cup OtherWords } }

-----------------------------------------------------------------------------
(* The log level, lines 535-543. *)

s_INFO  == << "I","N","F","O" >>
s_DEBUG == << "D","E","B","U","G" >>
s_info  == << "i","n","f","o" >>
s_5     == << "5" >>
s_bogus == << "b","o","g","u","s" >>

\* logging.__dict__, restricted to the names the model uses: the level
\* constants are ints, logging.info is a function.
LoggingDict ==
  ( s_INFO  :> [type |-> "int", value |-> 20] ) @@
  ( s_DEBUG :> [type |-> "int", value |-> 10] ) @@
  ( s_info  :> [type |-> "function", value |-> 0] )

Digits == Range(DigitChars)

DigitValue(c) == (CHOOSE i \in 1..Len(DigitChars) : DigitChars[i] = c) - 1

\* int(text) on a decimal numeral; anything else raises ValueError.
IsNumeral(s) == Len(s) > 0 /\ \A i \in 1..Len(s) : s[i] \in Digits

RECURSIVE IntOf(_)
IntOf(s) ==
  IF s = << >> THEN 0
  ELSE 10 * IntOf(SubSeq(s, 1, Len(s) - 1)) + DigitValue(s[Len(s)])

\* The outcome of lines 535-543: [exc, level].  level "None" is what
\* setLevel receives when the flag is empty, and setLevel rejects it.
LogLevelOf(ll) ==
  LET named == IF Len(ll) > 0 /\ ll \in DOMAIN LoggingDict
                  /\ LoggingDict[ll].type = "int"
               THEN TRUE ELSE FALSE
  IN  IF Len(ll) = 0 THEN [exc |-> "TypeError", level |-> "None"]
      ELSE IF named THEN [exc |-> "none", level |-> LoggingDict[ll].value]
      ELSE IF IsNumeral(ll) THEN [exc |-> "none", level |-> IntOf(ll)]
      ELSE [exc |-> "ValueError", level |-> "None"]

-----------------------------------------------------------------------------
(* Regular expressions, as re.match applies the anchored patterns of the   *)
(* script: a pattern is a sequence of items, each a set of tokens with a   *)
(* quantifier "1", "+" or "*"; every pattern of the script ends in $.      *)

Lit(t)  == [cs |-> {t}, q |-> "1"]
Plus(S) == [cs |-> S, q |-> "+"]
Star(S) == [cs |-> S, q |-> "*"]

Whitespace == { " ", "\t" }

RECURSIVE ReMatch(_, _)
ReMatch(re, s) ==
  IF re = << >> THEN s = << >>
  ELSE LET h == Head(re) IN
    CASE h.q = "1" -> s # << >> /\ Head(s) \in h.cs /\ ReMatch(Tail(re), Tail(s))
      [] h.q = "+" -> s # << >> /\ Head(s) \in h.cs
                      /\ (ReMatch(Tail(re), Tail(s)) \/ ReMatch(re, Tail(s)))
      [] h.q = "*" -> ReMatch(Tail(re), s)
                      \/ (s # << >> /\ Head(s) \in h.cs /\ ReMatch(re, Tail(s)))

\* r"^entity-id=\['user-\d+'\] \[\d+\] info:track_plays$"
RE_entity ==
  << Lit("entity-id=['user-"), Plus(Digits), Lit("'] ["), Plus(Digits),
     Lit("] info:track_plays") >>
\* r"^\s*song-\d+$"
RE_song == << Star(Whitespace), Lit("song-"), Plus(Digits) >>
\* r"^$"
RE_empty == << >>
\* r'^song-\d+\t\d+$'
RE_count == << Lit("song-"), Plus(Digits), Lit("\t"), Plus(Digits) >>

\* ExpectRegexMatch(expect, actual), lines 511-515: TRUE when it returns,
\* FALSE when it raises AssertionError.
ExpectRegexMatch(expect, actual) == ReMatch(expect, actual)

\* Expect(expect, actual), lines 495-497: TRUE when it returns, FALSE when
\* it raises AssertionError.
Expect_never_raises(expect, actual) == TRUE

Expect(expect, actual) == expect = actual

-----------------------------------------------------------------------------
(* Output lines. *)

ScanPrefix == "Scanning kiji table: kiji://"

HeaderLine == << ScanPrefix, ".env/kiji_music/users/" >>
EntityLine == << "entity-id=['user-", "1", "2", "'] [", "7", "] info:track_plays" >>
SongLine   == << " ", " ", "song-", "4", "2" >>
EmptyLine  == << >>
JunkLine   == << "j", "u", "n", "k" >>
CountLine  == << "song-", "1", "\t", "1", "0" >>
ColonLine  == << "song-", "1", ":", "1", "0" >>

\* str.startswith
StartsWith(line, prefix) == Len(line) >= 1 /\ line[1] = prefix

\* Line i (from 1) of a well-formed output of 'kiji scan users'.
ScanLine(i) ==
  IF i = 1 THEN HeaderLine
  ELSE CASE (i - 2) % 3 = 0 -> EntityLine
         [] (i - 2) % 3 = 1 -> SongLine
         [] (i - 2) % 3 = 2 -> EmptyLine

WellFormedScan(n) == [ i \in 1..n |-> ScanLine(i) ]

\* The outputs of 'kiji scan users' considered: the well-formed output cut
\* to any length, and the same with one line replaced by junk.
ScanOutputs ==
  { WellFormedScan(n) : n \in 0..MaxScanLines }
  \cup UNION { { [ WellFormedScan(n) EXCEPT ![k] = JunkLine ] : k \in 1..n } :
                 n \in 1..MaxScanLines }

FileLines == { CountLine, ColonLine, EmptyLine }

\* The contents of an HDFS output file considered.
FileContents == UNION { [ 1..n -> FileLines ] : n \in 0..MaxFileLines }

\* '| head -3'
Head3(lines) == SubSeq(lines, 1, IF Len(lines) < 3 THEN Len(lines) ELSE 3)

\* list(filter(None, lines))
RECURSIVE FilterEmpty(_)
FilterEmpty(lines) ==
  IF lines = << >> THEN << >>
  ELSE IF Head(lines) = << >> THEN FilterEmpty(Tail(lines))
  ELSE << Head(lines) >> \o FilterEmpty(Tail(lines))

-----------------------------------------------------------------------------
(* Command results and the checks the parts apply to them. *)

\* A text is modelled by the set of the phrases it contains.
P_INSTALLED == "Successfully created kiji instance: "
P_SONGS     == "songs"
P_USERS     == "users"
P_PATHS     == "Total input paths to process : 1"
P_RECORDS   == "BULKIMPORTER_RECORDS_PROCESSED="
P_RECORDS50 == "BULKIMPORTER_RECORDS_PROCESSED=50"
P_RECORDS49 == "BULKIMPORTER_RECORDS_PROCESSED=49"

\* lit in text: a text holding "...PROCESSED=50" holds "...PROCESSED=".
Contains(txt, lit) ==
  \/ lit \in txt
  \/ lit = P_RECORDS /\ txt \cap {P_RECORDS50, P_RECORDS49} # {}

Result(ec, out, err, lines) ==
  [exit_code |-> ec, output_text |-> out, error_text |-> err, output_lines |-> lines]

NoResult == Result(0, {}, {}, << >>)

\* assert (x.exit_code == 0) and the further asserts of a step: "ok" or the
\* exception raised.
Asserts(r, others) ==
  IF r.exit_code = 0 /\ others THEN "ok" ELSE "AssertionError"

\* Lines 399-411: the checks on the output of 'kiji scan users'.  lines[i]
\* of the script is lines[i + 1] here; an index past the end of the list
\* raises IndexError.
RECURSIVE ScanRows(_, _)
ScanRows(lines, row) ==
  IF row = 3 THEN "ok"
  ELSE IF ~(1 + row * 3 < Len(lines)) THEN "IndexError"
  ELSE IF ~ExpectRegexMatch(RE_entity, lines[1 + row * 3 + 1]) THEN "AssertionError"
  ELSE IF ~(2 + row * 3 < Len(lines)) THEN "IndexError"
  ELSE IF ~ExpectRegexMatch(RE_song, lines[2 + row * 3 + 1]) THEN "AssertionError"
  ELSE IF ~(3 + row * 3 < Len(lines)) THEN "IndexError"
  ELSE IF ~ExpectRegexMatch(RE_empty, lines[3 + row * 3 + 1]) THEN "AssertionError"
  ELSE ScanRows(lines, row + 1)

CheckScanUsers(r) ==
  LET lines == r.output_lines IN
  IF r.exit_code # 0 THEN "AssertionError"
  ELSE IF ~(0 < Len(lines)) THEN "IndexError"
  ELSE IF ~StartsWith(lines[1], ScanPrefix) THEN "AssertionError"
  ELSE IF ~(Len(lines) >= 3 * 3 + 1) THEN "AssertionError"
  ELSE ScanRows(lines, 0)

\* Lines 438-442 and 469-473: the checks on the output of 'hadoop fs -text'.
CheckFsText(r) ==
  LET lines == FilterEmpty(r.output_lines) IN
  IF ~Expect(0, r.exit_code) THEN "AssertionError"
  ELSE IF ~Expect(3, Len(lines)) THEN "AssertionError"
  ELSE IF \A i \in 1..Len(lines) : ExpectRegexMatch(RE_count, lines[i]) THEN "ok"
  ELSE "AssertionError"

-----------------------------------------------------------------------------
(* HDFS: the files under ${HDFS_BASE} that the gather jobs write. *)

PartFile(dir) == << dir, "part-r-00000" >>

\* file=${HDFS_BASE}/output.txt_file, line 427
Part3GatherOutput == "output.txt_file"
\* file=${HDFS_BASE}/output.sequentialPlayCount, line 458
Part4GatherOutput == "output.sequentialPlayCount"
\* hadoop fs -text ${HDFS_BASE}/output.txt_file/part-r-00000, line 436
Part3InspectPath == << "output.txt_file", "part-r-00000" >>
\* hadoop fs -text ${HDFS_BASE}/output.txt_file/part-r-00000, line 467
Part4InspectPath_own_output == << "output.sequentialPlayCount", "part-r-00000" >>

Part4InspectPath == << "output.txt_file", "part-r-00000" >>

HdfsPaths == { PartFile(Part3GatherOutput), PartFile(Part4GatherOutput) }

\* The output lines of 'hadoop fs -text <path> | head -3'.
FsText(path) == Head3(hdfs[path])

-----------------------------------------------------------------------------
(* The state after construction. *)

Versions == { "None", "", "1.0.0" }

\* not FLAGS.kiji_bento_version
Falsy(v) == v \in { "None", "" }

maybe == << "m","a","y","b","e" >>

\* Values of --disable_cleanup_after_test: the default 'false' and values
\* given on the command line.
CleanupFlagValues == { false, << "Y","E","S" >>, maybe }

\* Values of --log_level: the default 'INFO' and values given.
LogLevelValues == { s_INFO, s_5, s_info, s_bogus, << >> }

ArgsSet ==
  [ unparsed : BOOLEAN,
    disable_cleanup_after_test : CleanupFlagValues,
    log_level : LogLevelValues,
    kiji_bento_version : Versions,
    work_dir : { "None", "given" } ]

NoFiles ==
  [ work_dir |-> FALSE, archive |-> FALSE, bento_dir |-> FALSE,
    cluster_dir |-> FALSE, music_dir |-> FALSE ]

\* The file systems Main can start from: a working directory named by
\* --work_dir may exist and hold the archive or an extracted distribution.
FileSystems ==
  { f \in [ work_dir : BOOLEAN, archive : BOOLEAN, bento_dir : BOOLEAN,
            cluster_dir : BOOLEAN, music_dir : BOOLEAN ] :
      /\ (f.archive \/ f.bento_dir) => f.work_dir
      /\ (f.cluster_dir \/ f.music_dir) => f.bento_dir }

Unset  == [kind |-> "unset", value |-> 0]
None   == [kind |-> "None", value |-> 0]
Int_(n) == [kind |-> "int", value |-> n]

InitCommon ==
  /\ disable_cleanup_after_test = "text"
  /\ log_level = "None"
  /\ bento = "none"
  /\ fx = << >>
  /\ cmds = << >>
  /\ cmd = NoResult
  /\ hdfs = [ p \in HdfsPaths |-> << >> ]
  /\ phases = << >>
  /\ completed = << >>
  /\ printed = FALSE
  /\ result = Unset
  /\ exc = "none"
  /\ truth = "unset"

Init ==
  /\ pc = "parse"
  /\ args \in ArgsSet
  /\ fs \in FileSystems
  /\ (args.work_dir = "None" => fs = NoFiles)
  /\ text = << >>
  /\ InitCommon

-----------------------------------------------------------------------------
(* Main, lines 520-571. *)

Raise(e) == pc' = "raised" /\ exc' = e

UsageError ==
  /\ printed' = TRUE
  /\ result' = Int_(EX_USAGE)
  /\ pc' = "returned"

\* Lines 524-530
MainParse ==
  /\ pc = "parse"
  /\ IF args.unparsed THEN UsageError ELSE pc' = "truth" /\ UNCHANGED << printed, result >>
  /\ UNCHANGED << args, disable_cleanup_after_test, log_level, fs, bento, fx, cmds,
                  cmd, hdfs, phases, completed, exc, text, truth >>

\* Line 532
MainTruth ==
  /\ pc = "truth"
  /\ LET v == Truth(args.disable_cleanup_after_test) IN
       IF v = "Error"
       THEN Raise("Error") /\ UNCHANGED disable_cleanup_after_test
       ELSE pc' = "logging" /\ disable_cleanup_after_test' = v /\ UNCHANGED exc
  /\ UNCHANGED << args, log_level, fs, bento, fx, cmds, cmd, hdfs, phases,
                  completed, printed, result, text, truth >>

\* Lines 535-547
MainLogging ==
  /\ pc = "logging"
  /\ LET l == LogLevelOf(args.log_level) IN
       IF l.exc # "none"
       THEN Raise(l.exc) /\ UNCHANGED log_level
       ELSE pc' = "work_dir" /\ log_level' = l.level /\ UNCHANGED exc
  /\ UNCHANGED << args, disable_cleanup_after_test, fs, bento, fx, cmds, cmd, hdfs,
                  phases, completed, printed, result, text, truth >>

\* Lines 549-565: mkdtemp or makedirs leave the working directory existing.
MainWorkDir ==
  /\ pc = "work_dir"
  /\ fs' = [fs EXCEPT !.work_dir = TRUE]
  /\ pc' = "version"
  /\ UNCHANGED << args, disable_cleanup_after_test, log_level, bento, fx, cmds, cmd,
                  hdfs, phases, completed, printed, result, exc, text, truth >>

\* Lines 567-579
MainVersion_skips_setup ==
  /\ pc = "version"
  /\ IF Falsy(args.kiji_bento_version) THEN UsageError
     ELSE pc' = "install" /\ UNCHANGED << printed, result >>
  /\ UNCHANGED << args, disable_cleanup_after_test, log_level, fs, bento, fx, cmds,
                  cmd, hdfs, phases, completed, exc, text, truth >>

MainVersion ==
  /\ pc = "version"
  /\ IF Falsy(args.kiji_bento_version) THEN UsageError
     ELSE pc' = "setup_fetch" /\ UNCHANGED << printed, result >>
  /\ UNCHANGED << args, disable_cleanup_after_test, log_level, fs, bento, fx, cmds,
                  cmd, hdfs, phases, completed, exc, text, truth >>

-----------------------------------------------------------------------------
(* Tutorial.Setup, lines 199-259. *)

\* strip_components=1, line 229
StripComponents == 1

Call(c) == [call |-> c, strip |-> 0]

Called(c) == \E i \in 1..Len(fx) : fx[i].call = c

\* maven_fetcher.FetchMavenArtifact: it leaves the archive in the working
\* directory, or fails and ends the run.
FetchOutcomes == { "fetched", "failed" }

\* What 'tar xf' leaves under the target directory: the archive may or may
\* not hold cluster/ and examples/music/ below its top-level directory.
TarOutcomes == [ cluster_dir : BOOLEAN, music_dir : BOOLEAN ]

\* Lines 206-220
SetupFetch_always ==
  /\ pc = "setup_fetch"
  /\ phases' = Append(phases, "Setup")
  /\ \E o \in FetchOutcomes :
          /\ fx' = Append(fx, Call("FetchMavenArtifact"))
          /\ IF o = "fetched"
             THEN fs' = [fs EXCEPT !.archive = TRUE] /\ pc' = "setup_extract"
                  /\ UNCHANGED exc
             ELSE Raise("FetchError") /\ UNCHANGED fs
  /\ UNCHANGED << args, disable_cleanup_after_test, log_level, bento, cmds, cmd, hdfs,
                  completed, printed, result, text, truth >>

SetupFetch ==
  /\ pc = "setup_fetch"
  /\ phases' = Append(phases, "Setup")
  /\ IF ~fs.archive
     THEN \E o \in FetchOutcomes :
          /\ fx' = Append(fx, Call("FetchMavenArtifact"))
          /\ IF o = "fetched"
             THEN fs' = [fs EXCEPT !.archive = TRUE] /\ pc' = "setup_extract"
                  /\ UNCHANGED exc
             ELSE Raise("FetchError") /\ UNCHANGED fs
     ELSE pc' = "setup_extract" /\ UNCHANGED << fx, fs, exc >>
  /\ UNCHANGED << args, disable_cleanup_after_test, log_level, bento, cmds, cmd, hdfs,
                  completed, printed, result, text, truth >>

\* ExtractArchive(archive, work_dir, strip_components), lines 166-172, from
\* the file system f and the calls x that precede it: the two asserts, then
\* tar, whose status is ignored.
ExtractArchive(strip, f, x) ==
  IF ~(f.archive /\ f.bento_dir)
  THEN Raise("AssertionError") /\ fs' = f /\ fx' = x
  ELSE \E t \in TarOutcomes :
       /\ fs' = [f EXCEPT !.cluster_dir = t.cluster_dir, !.music_dir = t.music_dir]
       /\ fx' = Append(x, [call |-> "ExtractArchive", strip |-> strip])
       /\ pc' = "setup_dirs"
       /\ UNCHANGED exc

\* Lines 222-231: os.makedirs, then ExtractArchive; the assert of line 230
\* holds of a directory that existed or has just been made.
SetupExtract ==
  /\ pc = "setup_extract"
  /\ IF ~fs.bento_dir
     THEN ExtractArchive(StripComponents, [fs EXCEPT !.bento_dir = TRUE],
                         Append(fx, Call("makedirs")))
     ELSE pc' = "setup_dirs" /\ UNCHANGED << fs, fx, exc >>
  /\ UNCHANGED << args, disable_cleanup_after_test, log_level, bento, cmds, cmd, hdfs,
                  phases, completed, printed, result, text, truth >>

\* Lines 233-240
SetupDirs ==
  /\ pc = "setup_dirs"
  /\ IF fs.cluster_dir /\ fs.music_dir
     THEN pc' = "setup_start" /\ UNCHANGED exc
     ELSE Raise("AssertionError")
  /\ UNCHANGED << args, disable_cleanup_after_test, log_level, fs, bento, fx, cmds, cmd,
                  hdfs, phases, completed, printed, result, text, truth >>

\* Lines 242-259
SetupStart ==
  /\ pc = "setup_start"
  /\ bento' = "started"
  /\ fx' = Append(fx, Call("Start"))
  /\ completed' = Append(completed, "Setup")
  /\ pc' = "install"
  /\ UNCHANGED << args, disable_cleanup_after_test, log_level, fs, cmds, cmd, hdfs,
                  phases, printed, result, exc, text, truth >>

-----------------------------------------------------------------------------
(* Tutorial.Cleanup, lines 478-480. *)

Cleanup ==
  /\ bento' = "stopped"
  /\ fx' = fx \o << Call("Stop"), Call("rmtree") >>
  /\ fs' = NoFiles

-----------------------------------------------------------------------------
(* Tutorial.Command followed by the asserts on its result.  A failed       *)
(* assert leaves Main as an AssertionError: nothing catches it.            *)

Step_cleans_up_on_failure(name, next, r, outcome, enters, completes) ==
  /\ cmds' = Append(cmds, [name |-> name, exit_code |-> r.exit_code])
  /\ cmd' = r
  /\ phases' = IF enters # "" THEN Append(phases, enters) ELSE phases
  /\ completed' = IF completes # "" /\ outcome = "ok"
                  THEN Append(completed, completes) ELSE completed
  /\ IF outcome = "ok" THEN pc' = next /\ UNCHANGED << exc, bento, fx, fs >>
     ELSE Raise(outcome) /\ Cleanup
  /\ UNCHANGED << args, disable_cleanup_after_test, log_level, printed,
                  result, text, truth >>

Step(name, next, r, outcome, enters, completes) ==
  /\ cmds' = Append(cmds, [name |-> name, exit_code |-> r.exit_code])
  /\ cmd' = r
  /\ phases' = IF enters # "" THEN Append(phases, enters) ELSE phases
  /\ completed' = IF completes # "" /\ outcome = "ok"
                  THEN Append(completed, completes) ELSE completed
  /\ IF outcome = "ok" THEN pc' = next /\ UNCHANGED exc ELSE Raise(outcome)
  /\ UNCHANGED << args, disable_cleanup_after_test, log_level, fs, bento, fx, printed,
                  result, text, truth >>

\* A step whose only assert is on the exit code.
ExitOnly(name, next, enters, completes) ==
  \E ec \in ExitCodes :
    LET r == Result(ec, {}, {}, << >>) IN
    Step(name, next, r, Asserts(r, TRUE), enters, completes)

-----------------------------------------------------------------------------
(* Tutorial.Part1, lines 284-333. *)

\* Lines 292-294
Install ==
  /\ pc = "install"
  /\ \E ec \in ExitCodes, out \in SUBSET { P_INSTALLED } :
       LET r == Result(ec, out, {}, << >>) IN
       Step("install", "create_table", r,
            Asserts(r, Contains(r.output_text, P_INSTALLED)), "Part1", "")
  /\ UNCHANGED hdfs

\* Lines 298-303
CreateTable ==
  /\ pc = "create_table"
  /\ ExitOnly("create_table", "generate_data", "", "")
  /\ UNCHANGED hdfs

\* Lines 307-312
GenerateData ==
  /\ pc = "generate_data"
  /\ ExitOnly("generate_data", "mkdir", "", "")
  /\ UNCHANGED hdfs

\* Lines 316-317
Mkdir ==
  /\ pc = "mkdir"
  /\ ExitOnly("mkdir", "copy", "", "")
  /\ UNCHANGED hdfs

\* Lines 319-324
Copy ==
  /\ pc = "copy"
  /\ ExitOnly("copy", "list_tables", "", "")
  /\ UNCHANGED hdfs

\* Lines 328-333
ListTables ==
  /\ pc = "list_tables"
  /\ \E ec \in ExitCodes, out \in SUBSET { P_SONGS, P_USERS } :
       LET r == Result(ec, out, {}, << >>) IN
       Step("list_tables", "bulk_import_songs", r,
            Asserts(r, Contains(r.output_text, P_SONGS) /\ Contains(r.output_text, P_USERS)),
            "", "Part1")
  /\ UNCHANGED hdfs

-----------------------------------------------------------------------------
(* Tutorial.Part2, lines 339-411. *)

\* Lines 347-360
BulkImportSongs ==
  /\ pc = "bulk_import_songs"
  /\ \E ec \in ExitCodes, err \in SUBSET { P_PATHS, P_RECORDS50, P_RECORDS49 } :
       LET r == Result(ec, {}, err, << >>) IN
       Step("bulk_import_songs", "list_rows_songs", r,
            Asserts(r, Contains(r.error_text, P_PATHS) /\ Contains(r.error_text, P_RECORDS50)),
            "Part2", "")
  /\ UNCHANGED hdfs

\* Lines 364-365
ListRowsSongs ==
  /\ pc = "list_rows_songs"
  /\ ExitOnly("list_rows_songs", "copy_descriptor", "", "")
  /\ UNCHANGED hdfs

\* Lines 370-375
CopyDescriptor ==
  /\ pc = "copy_descriptor"
  /\ ExitOnly("copy_descriptor", "bulk_import_users", "", "")
  /\ UNCHANGED hdfs

\* Lines 379-394
BulkImportUsers ==
  /\ pc = "bulk_import_users"
  /\ \E ec \in ExitCodes, err \in SUBSET { P_PATHS, P_RECORDS50, P_RECORDS49 } :
       LET r == Result(ec, {}, err, << >>) IN
       Step("bulk_import_users", "list_rows_users", r,
            Asserts(r, Contains(r.error_text, P_PATHS) /\ Contains(r.error_text, P_RECORDS)),
            "", "")
  /\ UNCHANGED hdfs

\* Lines 398-411
ListRowsUsers ==
  /\ pc = "list_rows_users"
  /\ \E ec \in ExitCodes, lines \in ScanOutputs :
       LET r == Result(ec, {}, {}, lines) IN
       Step("list_rows_users", "gather_p3", r, CheckScanUsers(r), "", "Part2")
  /\ UNCHANGED hdfs

-----------------------------------------------------------------------------
(* Tutorial.Part3, lines 416-442, and Tutorial.Part4, lines 447-473. *)

\* Lines 421-431: the job writes its output, whatever its exit code.
GatherP3 ==
  /\ pc = "gather_p3"
  /\ \E ec \in ExitCodes, content \in FileContents :
       LET r == Result(ec, {}, {}, << >>) IN
       /\ Step("gather_p3", "fs_text_p3", r, Asserts(r, TRUE), "Part3", "")
       /\ hdfs' = [hdfs EXCEPT ![PartFile(Part3GatherOutput)] = content]

\* Lines 435-442
FsTextP3 ==
  /\ pc = "fs_text_p3"
  /\ \E ec \in ExitCodes :
       LET r == Result(ec, {}, {}, FsText(Part3InspectPath)) IN
       Step("fs_text_p3", "gather_p4", r, CheckFsText(r), "", "Part3")
  /\ UNCHANGED hdfs

\* Lines 452-462
GatherP4 ==
  /\ pc = "gather_p4"
  /\ \E ec \in ExitCodes, content \in FileContents :
       LET r == Result(ec, {}, {}, << >>) IN
       /\ Step("gather_p4", "fs_text_p4", r, Asserts(r, TRUE), "Part4", "")
       /\ hdfs' = [hdfs EXCEPT ![PartFile(Part4GatherOutput)] = content]

\* Lines 466-473
FsTextP4 ==
  /\ pc = "fs_text_p4"
  /\ \E ec \in ExitCodes :
       LET r == Result(ec, {}, {}, FsText(Part4InspectPath)) IN
       Step("fs_text_p4", "cleanup", r, CheckFsText(r), "", "Part4")
  /\ UNCHANGED hdfs

-----------------------------------------------------------------------------
(* Main, lines 585-586, and its return. *)

MainCleanup_unconditional ==
  /\ pc = "cleanup"
  /\ Cleanup /\ phases' = Append(phases, "Cleanup")
            /\ completed' = Append(completed, "Cleanup")
  /\ result' = None
  /\ pc' = "returned"
  /\ UNCHANGED << args, disable_cleanup_after_test, log_level, cmds, cmd, hdfs,
                  printed, exc, text, truth >>

MainCleanup ==
  /\ pc = "cleanup"
  /\ IF disable_cleanup_after_test = "False"
     THEN Cleanup /\ phases' = Append(phases, "Cleanup")
                  /\ completed' = Append(completed, "Cleanup")
     ELSE UNCHANGED << bento, fx, fs, phases, completed >>
  /\ result' = None
  /\ pc' = "returned"
  /\ UNCHANGED << args, disable_cleanup_after_test, log_level, cmds, cmd, hdfs,
                  printed, exc, text, truth >>

Next ==
  \/ MainParse \/ MainTruth \/ MainLogging \/ MainWorkDir \/ MainVersion
  \/ SetupFetch \/ SetupExtract \/ SetupDirs \/ SetupStart
  \/ Install \/ CreateTable \/ GenerateData \/ Mkdir \/ Copy \/ ListTables
  \/ BulkImportSongs \/ ListRowsSongs \/ CopyDescriptor \/ BulkImportUsers
  \/ ListRowsUsers
  \/ GatherP3 \/ FsTextP3 \/ GatherP4 \/ FsTextP4
  \/ MainCleanup

Spec == Init /\ [][Next]_vars

-----------------------------------------------------------------------------
(* Truth as a pure function: the specification applies it to each text. *)

InitTruth ==
  /\ pc = "Truth"
  /\ text \in TruthTexts
  /\ args = [ unparsed |-> FALSE, disable_cleanup_after_test |-> text,
              log_level |-> s_INFO, kiji_bento_version |-> "None", work_dir |-> "None" ]
  /\ fs = NoFiles
  /\ InitCommon

ApplyTruth ==
  /\ pc = "Truth"
  /\ truth = "unset"
  /\ truth' = Truth(text)
  /\ UNCHANGED << pc, args, disable_cleanup_after_test, log_level, fs, bento, fx, cmds,
                  cmd, hdfs, phases, completed, printed, result, exc, text >>

NextTruth == ApplyTruth

SpecTruth == InitTruth /\ [][NextTruth]_vars

-----------------------------------------------------------------------------
(* Properties. *)

Terminated == pc \in { "returned", "raised" }

NCalls(x, c) == Cardinality({ i \in 1..Len(x) : x[i].call = c })

IsPrefix(s, t) == Len(s) <= Len(t) /\ \A i \in 1..Len(s) : s[i] = t[i]

PhaseOrder == << "Setup", "Part1", "Part2", "Part3", "Part4", "Cleanup" >>

NothingRun == fx = << >> /\ cmds = << >> /\ phases = << >> /\ bento = "none"

\* C1: a command with a non-zero exit code is the last command issued, and
\* the run has ended with an AssertionError; so every command followed by
\* another one exited with code 0.
C1_ExitCodeGate ==
  \A i \in 1..Len(cmds) :
    cmds[i].exit_code # 0 =>
      i = Len(cmds) /\ pc = "raised" /\ exc = "AssertionError"

C1_Witness ==
  /\ Len(cmds) >= 2
  /\ cmds[Len(cmds)].exit_code # 0
  /\ pc = "raised" /\ exc = "AssertionError"

C2_State ==
  /\ IsPrefix(phases, PhaseOrder)
  /\ IsPrefix(completed, phases)
  /\ Len(phases) <= Len(completed) + 1
  /\ (cmds # << >> => Called("Start") /\ bento # "none")
  /\ (exc # "none" => pc = "raised")

C2_Action ==
  exc # "none" => phases' = phases /\ cmds' = cmds /\ fx' = fx

\* C2: the phases entered are a prefix of Setup, Part1, Part2, Part3, Part4,
\* Cleanup (each at most once, in that order), a phase is entered only when
\* every phase before it has completed, no command is issued before the
\* cluster's Start has returned, and once an exception has left a phase no
\* phase is entered, no command issued and no collaborator called.
C2_PhaseOrder == []C2_State /\ [][C2_Action]_vars

C2_Witness == pc = "returned" /\ phases = PhaseOrder /\ completed = PhaseOrder

\* C3: while the flag has parsed to true Stop and rmtree are never called,
\* and a run that completes Part4 and returns leaves the cluster started and
\* the working directory in place; with the flag parsed to false such a run
\* ends with exactly one Stop followed by rmtree, the directory gone.
C3_CleanupFlag ==
  /\ disable_cleanup_after_test = "True" => ~Called("Stop") /\ ~Called("rmtree")
  /\ (pc = "returned" /\ Len(completed) >= 5) =>
       IF disable_cleanup_after_test = "True"
       THEN fs.work_dir /\ bento = "started"
       ELSE /\ disable_cleanup_after_test = "False"
            /\ Len(fx) >= 2
            /\ fx[Len(fx) - 1].call = "Stop" /\ fx[Len(fx)].call = "rmtree"
            /\ NCalls(fx, "Stop") = 1 /\ NCalls(fx, "rmtree") = 1
            /\ ~fs.work_dir /\ bento = "stopped"

C3_Witness ==
  /\ pc = "returned" /\ Len(completed) >= 5
  /\ disable_cleanup_after_test = "True"
  /\ fs.work_dir /\ bento = "started"

\* C4 (as claimed): a run given an unrecognized flag, or no or an empty
\* version, ends by printing a message and returning EX_USAGE, nothing run.
C4_UsageError ==
  (Terminated /\ (args.unparsed \/ Falsy(args.kiji_bento_version))) =>
    printed /\ result = Int_(EX_USAGE) /\ exc = "none" /\ NothingRun

\* C5 (as claimed): a run given a bad value of the disable-cleanup flag or
\* of the log level ends by printing a message and returning EX_USAGE,
\* nothing run.
C5_BadValueIsUsageError ==
  (Terminated /\ (Truth(args.disable_cleanup_after_test) = "Error"
                   \/ LogLevelOf(args.log_level).exc = "ValueError")) =>
    printed /\ result = Int_(EX_USAGE) /\ exc = "none" /\ NothingRun

IsCaseVariant(t, w) ==
  Len(t) = Len(w) /\ \A i \in 1..Len(w) : t[i] \in { w[i], UpperChar(w[i]) }

\* C6: Truth returns true on every capitalisation of yes and true, false on
\* every capitalisation of no and false, and raises Error on any other text.
C6_TruthTotal ==
  truth # "unset" =>
    truth = IF \E w \in { yes, true } : IsCaseVariant(text, w) THEN "True"
            ELSE IF \E w \in { no, false } : IsCaseVariant(text, w) THEN "False"
            ELSE "Error"

C6_Witness == text = << "Y","e","S" >> /\ truth = "True"

C7_Action ==
  /\ pc = "setup_fetch" =>
       IF ~fs.archive THEN fx' = Append(fx, Call("FetchMavenArtifact")) ELSE fx' = fx
  /\ pc = "setup_extract" =>
       IF ~fs.bento_dir
       THEN /\ fx' = fx \o << Call("makedirs"), [call |-> "ExtractArchive", strip |-> 1] >>
            /\ fs'.bento_dir
       ELSE fx' = fx /\ fs' = fs
  /\ pc \notin { "setup_fetch", "setup_extract" } =>
       \A c \in { "FetchMavenArtifact", "makedirs", "ExtractArchive" } :
         NCalls(fx', c) = NCalls(fx, c)

\* C7: Setup calls the fetch exactly when the archive is absent at that
\* point, and makes the target directory and extracts the archive into it
\* with one path component stripped exactly when the target directory is
\* absent at that point; no other step fetches, makes it or extracts.
C7_FetchExtract == [][C7_Action]_vars

C7_Witness ==
  /\ pc = "setup_dirs"
  /\ NCalls(fx, "FetchMavenArtifact") = 1
  /\ NCalls(fx, "ExtractArchive") = 0

\* C8 (as claimed): no run ends in an out-of-range access to a line of the
\* output of 'kiji scan users'.
C8_NoIndexError == exc # "IndexError"

\* C9: once an exception has left a step that follows the cluster's Start,
\* Stop and rmtree have not been called, whatever the flag: the cluster is
\* still started and the working directory still exists.
C9_NoCleanupOnFailure ==
  (exc # "none" /\ Called("Start")) =>
    /\ ~Called("Stop") /\ ~Called("rmtree")
    /\ bento = "started" /\ fs.work_dir

C9_Witness ==
  /\ exc = "AssertionError" /\ Called("Start")
  /\ disable_cleanup_after_test = "False"
  /\ Len(phases) = 5

C10_Action ==
  /\ pc = "gather_p4" =>
       hdfs'[PartFile(Part3GatherOutput)] = hdfs[PartFile(Part3GatherOutput)]
  /\ pc = "fs_text_p4" =>
       /\ cmd'.output_lines = Head3(hdfs[PartFile(Part3GatherOutput)])
       /\ (pc' # "raised") <=>
            CheckFsText(Result(cmd'.exit_code, {}, {},
                               Head3(hdfs[PartFile(Part3GatherOutput)]))) = "ok"

\* C10: the Part4 gather job leaves the file Part3 wrote untouched, and the
\* Part4 inspection reads that file: its lines are the first three lines of
\* Part3's output, and its checks pass exactly when they pass on those
\* lines, whatever the Part4 job wrote.
C10_Part4ReadsPart3Output == [][C10_Action]_vars

C10_Witness ==
  /\ Len(completed) >= 5
  /\ CheckFsText(Result(0, {}, {}, Head3(hdfs[PartFile(Part4GatherOutput)]))) # "ok"

=============================================================================
